---- MODULE Spec2Model ----
(***************************************************************************)
(* Encrypted-object metadata and remote-link resolution (handler           *)
(* CryptMeta, resolver buildStorageChain, policy pickNestedProxyURL).      *)
(*                                                                         *)
(* Strings are sequences of tokens.  A positive token n stands for the     *)
(* path segment "/n"; COLON is the character ":" and DOT, DOTDOT, EMPTY    *)
(* are the segments "/.", "/.." and "/" (a redundant separator).           *)
(***************************************************************************)
EXTENDS Integers, Sequences, FiniteSets, TLC

\* ------------------------------------------------------------------ bounds
\* number of mounted storages the mount table may answer with
NStorage == 3
\* longest re-routing sequence offered to a direct call of buildStorageChain
MaxChainHops == 18
\* longest re-routing sequence offered inside one CryptMeta request
MaxRequestHops == 3
\* largest concurrency hint a backend link carries
MaxLinkConcurrency == 18

\* --------------------------------------------------------------- constants
maxDepth == 16
maxConcurrency == 16
DataBlockSize == 65536
DataBlockHeaderSize == 16
\* fileHeaderSize of the crypt driver: an 8-byte magic and a 24-byte nonce
FileHeaderSize == 32
\* tokens of a string
COLON == 0
DOT == -1
DOTDOT == -2
EMPTY == -3

VARIABLES
    entry,            \* which operation this behaviour exercises
    pc,               \* position of the running operation
    resolveTab,       \* mount table as revealed so far: cleaned raw path -> lookup result
    resolverCap,      \* storage -> "?", "yes", "no": does the driver implement aliasPathResolver
    chainInput,       \* rawPath argument of buildStorageChain
    depth,            \* loop variable of buildStorageChain
    currentRawPath,
    visited,          \* set of identity keys
    nodes,            \* the chain under construction
    hops,             \* per node: could the storage re-route, did it name candidates,
                      \* and the normalised first candidate
    lookups,          \* GetStorageAndActualPath calls made by buildStorageChain
    lastLookup,       \* result of the latest lookup made by buildStorageChain
    exitReason,       \* why the loop of buildStorageChain ended
    chainRet,         \* what buildStorageChain returned: "none", "ok", "err"
    storageChain,     \* the chain buildStorageChain returned
    loc,              \* local variables of CryptMeta
    link,             \* the remote link of the request and its release
    env,              \* storage configuration and settings read by the delivery decision
    resp,             \* the response handed to SuccessResp, or NoResp
    errResp,          \* the error handed to ErrorResp, or NoErr
    calls,            \* collaborator calls made by the request, in order
    dk,               \* the running call of Crypt.DataKey: receiver fields and result
    twin              \* the delivery decided for the same request under a storage
                      \* configuration that differs in the flags of non-terminal nodes

chainVars == <<chainInput, depth, currentRawPath, visited, nodes, hops, lookups,
               lastLookup, exitReason, chainRet, storageChain>>
envVars == <<resolveTab, resolverCap>>
handlerVars == <<loc, link, env, resp, errResp, calls, dk, twin>>
vars == <<entry, pc, envVars, chainVars, handlerVars>>

\* ------------------------------------------------------------------ paths
Storages == 1..NStorage

RECURSIVE CleanSegs(_, _)
CleanSegs(p, acc) ==
    IF p = <<>> THEN acc
    ELSE LET h == Head(p) IN
         IF h = DOT \/ h = EMPTY THEN CleanSegs(Tail(p), acc)
         ELSE IF h = DOTDOT
              THEN CleanSegs(Tail(p), IF acc = <<>> THEN <<>>
                                      ELSE SubSeq(acc, 1, Len(acc) - 1))
              ELSE CleanSegs(Tail(p), Append(acc, h))

\* utils.FixAndCleanPath: root the path and path.Clean it
FixAndCleanPath(p) == CleanSegs(p, <<>>)

\* spellings of one path that a caller or an alias driver may hand over
Spellings(p) ==
    {p, <<DOT>> \o p, <<EMPTY>> \o p, p \o <<1, DOTDOT>>, p \o <<DOT>>}

\* ------------------------------------------------------------ mount table
\* Mount path of a storage.  The last storage is mounted on a path that
\* holds a colon ("/1:/1"), which a mount path may.
MountPath(s) == IF s = NStorage /\ s > 1 THEN <<1, COLON, 1>> ELSE <<s>>

ActualIndexes == 1..(MaxChainHops + 1)
ActualPaths == {<<x>> : x \in ActualIndexes} \cup {<<1, COLON, x>> : x \in ActualIndexes}
Identities == [storage : Storages, actualPath : ActualPaths]

\* The k-th identity that is new to a walk.  Storages and paths are opaque to
\* the code, so a lookup that answers with a new identity is named canonically.
FreshIdent(k) ==
    [storage |-> ((k - 1) % NStorage) + 1, actualPath |-> <<k>>]

\* the raw path of the k-th hop of a walk that keeps meeting new paths
FreshRawPath(k) == <<k>>

ErrResult == [err |-> TRUE, storage |-> 0, actualPath |-> <<>>]
OkResult(id) == [err |-> FALSE, storage |-> id.storage, actualPath |-> id.actualPath]

\* The identity key, part_000:81
IdentityKey(mount, actualPath) == mount \o <<COLON>> \o actualPath

KeyOf(r) == IdentityKey(MountPath(r.storage), r.actualPath)

\* op.GetStorageAndActualPath(p): the mount table is read-only during a request,
\* so a path looked up before answers as before.
LookupOutcomes(p) ==
    IF p \in DOMAIN resolveTab THEN {resolveTab[p]}
    ELSE {ErrResult}
         \cup {OkResult(id) : id \in {i \in Identities : KeyOf(i) \in visited}}
         \cup {OkResult(FreshIdent(Len(nodes) + 1))}

Remember(p, r) == [q \in DOMAIN resolveTab \cup {p} |-> IF q = p THEN r ELSE resolveTab[q]]

HopLimit == IF entry = "ResolveChain" THEN MaxChainHops ELSE MaxRequestHops

\* resolver.ResolveRawPaths(actualPath): none, or a list whose first element
\* spells the node's own raw path, a path met before, or a new path.
CandidateLists(k) ==
    LET targets == DOMAIN resolveTab \cup {currentRawPath}
                   \cup (IF k < HopLimit THEN {FreshRawPath(k + 1)} ELSE {})
        firsts == UNION {Spellings(t) : t \in targets}
    IN  {<<>>} \cup {<<c>> : c \in firsts} \cup {<<c, currentRawPath>> : c \in firsts}

ResolverAnswers(s) ==
    IF resolverCap[s] = "?" THEN {"yes", "no"} ELSE {resolverCap[s]}

\* --------------------------------------------------- buildStorageChain
\* the loop condition, part_000:76
LoopNoBound(d) == TRUE
LoopOneShort(d) == d < maxDepth - 1
LoopCondition(d) == d < maxDepth

\* a walk that starts from the path as it was handed over
EnterChainUnclean(rawPath) ==
    /\ chainInput' = rawPath
    /\ depth' = 0
    /\ currentRawPath' = rawPath
    /\ visited' = {}
    /\ nodes' = <<>>
    /\ hops' = <<>>
    /\ lookups' = 0
    /\ lastLookup' = ErrResult
    /\ exitReason' = IF LoopCondition(0) THEN "" ELSE "depth"
    /\ chainRet' = "none"
    /\ storageChain' = <<>>

\* part_000:70-74
EnterChain(rawPath) ==
    /\ chainInput' = rawPath
    /\ depth' = 0
    /\ currentRawPath' = FixAndCleanPath(rawPath)
    /\ visited' = {}
    /\ nodes' = <<>>
    /\ hops' = <<>>
    /\ lookups' = 0
    /\ lastLookup' = ErrResult
    /\ exitReason' = IF LoopCondition(0) THEN "" ELSE "depth"
    /\ chainRet' = "none"
    /\ storageChain' = <<>>

\* the cycle test, part_000:82
NeverVisited(key) == FALSE
AlreadyVisited(key) == key \in visited

\* the self-loop test, part_000:101
IsSelfLoop(next) == next = currentRawPath

\* One iteration of the loop: the body, depth++ and the loop test, part_000:76-105
ChainStep ==
    /\ pc = "chain"
    /\ exitReason = ""
    /\ \E r \in LookupOutcomes(currentRawPath) :
        /\ lookups' = lookups + 1
        /\ lastLookup' = r
        /\ resolveTab' = Remember(currentRawPath, r)
        /\ IF r.err
           THEN /\ exitReason' = "error"
                /\ UNCHANGED <<depth, currentRawPath, visited, nodes, hops, resolverCap>>
           ELSE IF AlreadyVisited(KeyOf(r))
           THEN /\ exitReason' = "cycle"
                /\ UNCHANGED <<depth, currentRawPath, visited, nodes, hops, resolverCap>>
           ELSE /\ visited' = visited \cup {KeyOf(r)}
                /\ nodes' = Append(nodes, [storage |-> r.storage,
                                           rawPath |-> currentRawPath,
                                           actualPath |-> r.actualPath])
                /\ \E cap \in ResolverAnswers(r.storage) :
                    /\ resolverCap' = [resolverCap EXCEPT ![r.storage] = cap]
                    /\ IF cap = "no"
                       THEN /\ exitReason' = "notResolver"
                            /\ hops' = Append(hops, [resolver |-> FALSE, candidates |-> FALSE,
                                                     next |-> <<>>])
                            /\ UNCHANGED <<depth, currentRawPath>>
                       ELSE \E cands \in CandidateLists(Len(nodes) + 1) :
                            /\ hops' = Append(hops,
                                   [resolver |-> TRUE, candidates |-> Len(cands) > 0,
                                    next |-> IF Len(cands) > 0
                                             THEN FixAndCleanPath(cands[1]) ELSE <<>>])
                            /\ IF Len(cands) = 0
                               THEN /\ exitReason' = "noCandidates"
                                    /\ UNCHANGED <<depth, currentRawPath>>
                               ELSE IF IsSelfLoop(FixAndCleanPath(cands[1]))
                               THEN /\ exitReason' = "selfLoop"
                                    /\ UNCHANGED <<depth, currentRawPath>>
                               ELSE /\ currentRawPath' = FixAndCleanPath(cands[1])
                                    /\ depth' = depth + 1
                                    /\ exitReason' = IF LoopCondition(depth + 1)
                                                     THEN "" ELSE "depth"
    /\ UNCHANGED <<entry, pc, chainInput, chainRet, storageChain, handlerVars>>

\* the return statements, part_000:79 and 107
ReturnChain ==
    IF exitReason = "error"
    THEN chainRet' = "err" /\ storageChain' = <<>>
    ELSE chainRet' = "ok" /\ storageChain' = nodes

\* --------------------------------------- direct use of buildStorageChain
ResolveChainCall ==
    /\ entry = "ResolveChain"
    /\ pc = "idle"
    /\ \E rawPath \in Spellings(FreshRawPath(1)) : EnterChain(rawPath)
    /\ pc' = "chain"
    /\ UNCHANGED <<entry, envVars, handlerVars>>

\* part_000:78-80 and 107
ResolveChainReturn ==
    /\ entry = "ResolveChain"
    /\ pc = "chain"
    /\ exitReason # ""
    /\ ReturnChain
    /\ pc' = "returned"
    /\ UNCHANGED <<entry, envVars, chainInput, depth, currentRawPath, visited, nodes, hops,
                   lookups, lastLookup, exitReason, handlerVars>>

\* ------------------------------------------------------------ Crypt.DataKey
\* A secret is a string of characters (positive numbers); OBF stands for the
\* obfuscatedPrefix and BAD for a character outside the base64 alphabet.
OBF == -4
BAD == -5
\* number of distinct characters of plain secrets
MaxSecret == 2

dataKeyLen == 32
nameKeyLen == 32
nameTweakLen == 16
keySize == dataKeyLen + nameKeyLen + nameTweakLen
defaultScryptSalt == <<168, 13, 244, 58, 143, 189, 3, 8, 167, 202, 184, 62, 88, 31, 134, 177>>

Secrets ==
    {<<>>, <<OBF>>, <<OBF, BAD>>, <<OBF, 1>>, <<OBF, 1, 1>>}
    \cup {<<c>> : c \in 1..MaxSecret}

\* the secrets an overlay of a request is configured with
RequestSecrets == {x \in Secrets : \A i \in 1..Len(x) : x[i] <= 1}

SecretsOf(e) == IF e = "DataKey" THEN Secrets ELSE RequestSecrets

\* obscure.Reveal: the text must be base64 and hold the initialisation vector,
\* which is dropped; what follows it is the secret
Reveal(raw) ==
    IF (\E i \in 1..Len(raw) : raw[i] = BAD) \/ Len(raw) < 1
    THEN [err |-> TRUE, value |-> <<>>]
    ELSE [err |-> FALSE, value |-> Tail(raw)]

\* meta_helper.go:25-39
revealSecret(secret) ==
    IF secret = <<>> THEN [err |-> FALSE, value |-> <<>>]
    ELSE IF secret[1] = OBF THEN Reveal(Tail(secret))
    ELSE [err |-> FALSE, value |-> secret]

\* make([]byte, n) and copy(dst, src)
Zeros(n) == [i \in 1..n |-> 0]
Copy(dst, src) == [i \in 1..Len(dst) |-> IF i <= Len(src) THEN src[i] ELSE dst[i]]

RECURSIVE Sum(_)
Sum(x) == IF x = <<>> THEN 0 ELSE Head(x) + Sum(Tail(x))

\* scrypt.Key(password, salt, scryptN, scryptR, scryptP, n): n bytes that depend
\* on the password and on the salt
Stretch(password, saltBytes, n) ==
    [i \in 1..n |->
        (31 * Sum(password) + 17 * Sum(saltBytes) + Len(password) + 7 * i) % 256]

NoKey == [err |-> "none", key |-> <<>>]
KeyError(what) == [err |-> what, key |-> <<>>]

\* DataKey with the errors of revealSecret dropped
DataKeyIgnoresRevealErrors(Password, Salt, derive) ==
    LET password == revealSecret(Password).value
        salt == revealSecret(Salt).value
        saltBytes == IF salt # <<>> THEN salt ELSE defaultScryptSalt
        key == IF password # <<>>
               THEN Copy(Zeros(keySize), Stretch(password, saltBytes, keySize))
               ELSE Zeros(keySize)
    IN  IF password # <<>> /\ derive = "err" THEN KeyError("derive")
        ELSE [err |-> "", key |-> Copy(Zeros(dataKeyLen), SubSeq(key, 1, dataKeyLen))]

\* DataKey without the test for the empty password
DataKeyStretchesEmpty(Password, Salt, derive) ==
    LET password == revealSecret(Password)
        salt == revealSecret(Salt)
        saltBytes == IF salt.value # <<>> THEN salt.value ELSE defaultScryptSalt
        key == Copy(Zeros(keySize), Stretch(password.value, saltBytes, keySize))
    IN  IF password.err THEN KeyError("password")
        ELSE IF salt.err THEN KeyError("salt")
        ELSE IF derive = "err" THEN KeyError("derive")
        ELSE [err |-> "", key |-> Copy(Zeros(dataKeyLen), SubSeq(key, 1, dataKeyLen))]

\* meta_helper.go:41-66; derive is the outcome of scrypt.Key if it is called
DataKey(Password, Salt, derive) ==
    LET password == revealSecret(Password)
        salt == revealSecret(Salt)
        saltBytes == IF salt.value # <<>> THEN salt.value ELSE defaultScryptSalt
        key == IF password.value # <<>>
               THEN Copy(Zeros(keySize), Stretch(password.value, saltBytes, keySize))
               ELSE Zeros(keySize)
    IN  IF password.err THEN KeyError("password")
        ELSE IF salt.err THEN KeyError("salt")
        ELSE IF password.value # <<>> /\ derive = "err" THEN KeyError("derive")
        ELSE [err |-> "", key |-> Copy(Zeros(dataKeyLen), SubSeq(key, 1, dataKeyLen))]

NoFrame == [active |-> FALSE, Password |-> <<>>, Salt |-> <<>>, derive |-> "", ret |-> NoKey]

\* a call of DataKey on an overlay: its Password and Salt fields, and the result
EnterDataKey ==
    \E Password \in SecretsOf(entry), Salt \in SecretsOf(entry), derive \in {"ok", "err"} :
        dk' = [active |-> TRUE, Password |-> Password, Salt |-> Salt, derive |-> derive,
               ret |-> DataKey(Password, Salt, derive)]

\* ------------------------------------------------ direct use of DataKey
DataKeyCall ==
    /\ entry = "DataKey"
    /\ pc = "idle"
    /\ EnterDataKey
    /\ pc' = "dataKey"
    /\ UNCHANGED <<entry, envVars, chainVars, loc, link, env, resp, errResp, calls, twin>>

DataKeyReturn ==
    /\ entry = "DataKey"
    /\ pc = "dataKey"
    /\ pc' = "returned"
    /\ UNCHANGED <<entry, envVars, chainVars, handlerVars>>

\* ------------------------------------------------------------ CryptMeta
NoResp == [mode |-> "none"]
NoErr == [status |-> 0, step |-> ""]
NoLink == [state |-> "none", closes |-> 0]
NoURL == [kind |-> "", storage |-> 0, path |-> <<>>, sign |-> FALSE]
NoEnv == [downProxied |-> {}, mustProxy |-> FALSE, webProxy |-> FALSE,
          signStorage |-> FALSE, signAll |-> FALSE]
NilMap == [nil |-> TRUE, kv |-> <<>>]

\* the path the request names: a file "/1" under the mount "/1"
RequestPath == <<1, 1>>
\* the mount path of the storage fs.GetStorage answers with
OwnerMountPath == <<1>>
\* logical sizes of the listed object
FileSizes == {3}

NoOutcome ==
    [useProxy |-> FALSE, remoteURL |-> NoURL, headerMap |-> NilMap,
     concurrency |-> 0, partSize |-> 0]
NoTwin == [active |-> FALSE, flagged |-> FALSE, outcome |-> NoOutcome]

InitLoc ==
    [reqPath |-> <<>>, owner |-> "none", cleanPath |-> <<>>, fileName |-> <<>>,
     obj |-> [found |-> FALSE, isDir |-> FALSE, size |-> 0],
     mode |-> "", fileHeaderSize |-> 0, blockDataSize |-> 0, blockHeaderSize |-> 0,
     dataKeyEncoded |-> <<>>, encryptedSuffix |-> "", requestPath |-> <<>>,
     remoteStorage |-> 0, remoteActualPath |-> <<>>,
     encryptionPath |-> <<>>, encryptionActual |-> <<>>,
     useProxy |-> FALSE, remoteURL |-> NoURL, encryptedSize |-> 0,
     headerMap |-> NilMap, concurrency |-> 0, partSize |-> 0]

InitHandlerVars ==
    /\ loc = InitLoc
    /\ link = NoLink
    /\ env = NoEnv
    /\ resp = NoResp
    /\ errResp = NoErr
    /\ calls = <<>>
    /\ dk = NoFrame
    /\ twin = NoTwin

\* the step a request would be at had the failing step succeeded
StepAfter(step) ==
    CASE step = "bind" -> "bound"
      [] step = "storage" -> "stored"
      [] step \in {"list", "notFound", "directory"} -> "located"
      [] step = "dataKey" -> "branched"
      [] step = "locate" -> "lookedUp"
      [] step = "chain" -> "chainResolved"
      [] OTHER -> "deliveryDecided"

\* an error response that is not followed by return
FailAndContinue(status, step) ==
    /\ errResp' = [status |-> status, step |-> step]
    /\ pc' = StepAfter(step)

\* common.ErrorResp / common.ErrorStrResp followed by return
Fail(status, step) ==
    /\ errResp' = [status |-> status, step |-> step]
    /\ pc' = "error"

\* stdpath.Dir and stdpath.Base of a cleaned path, part_000:142-146
Dir(p) == IF Len(p) = 0 THEN <<>> ELSE SubSeq(p, 1, Len(p) - 1)
Base(p) == IF Len(p) = 0 THEN <<>> ELSE <<p[Len(p)]>>

\* strings.TrimPrefix, part_000:198
TrimPrefix(p, prefix) ==
    IF Len(prefix) <= Len(p) /\ SubSeq(p, 1, Len(prefix)) = prefix
    THEN SubSeq(p, Len(prefix) + 1, Len(p))
    ELSE p

\* cryptDriver.EncryptedPath: the wrapped storage's remote path followed by the
\* encrypted names of the segments
EncryptedPath(rel) == <<2>> \o [i \in 1..Len(rel) |-> rel[i] + 1]

\* c.ShouldBind(&req), part_000:130-134
Bind ==
    /\ entry = "CryptMeta"
    /\ pc = "idle"
    /\ calls' = Append(calls, "ShouldBind")
    /\ \E ok \in BOOLEAN :
        IF ok
        THEN /\ \E p \in {RequestPath, <<DOT>> \o RequestPath \o <<1, DOTDOT>>} :
                  loc' = [loc EXCEPT !.reqPath = p]
             /\ pc' = "bound"
             /\ UNCHANGED errResp
        ELSE /\ Fail(400, "bind")
             /\ UNCHANGED loc
    /\ UNCHANGED <<entry, envVars, chainVars, link, env, resp, dk, twin>>

\* fs.GetStorage(req.Path), part_000:135-139
GetStorage ==
    /\ pc = "bound"
    /\ calls' = Append(calls, "GetStorage")
    /\ \E r \in {"err", "crypt", "plain"} :
        IF r = "err"
        THEN /\ Fail(500, "storage")
             /\ UNCHANGED loc
        ELSE /\ loc' = [loc EXCEPT !.owner = r]
             /\ pc' = "stored"
             /\ UNCHANGED errResp
    /\ UNCHANGED <<entry, envVars, chainVars, link, env, resp, dk, twin>>

\* a listing whose directory entries are taken for files
ListAcceptsDir ==
    /\ pc = "stored"
    /\ calls' = Append(calls, "List")
    /\ LET cleanPath == FixAndCleanPath(loc.reqPath)
           fileName == Base(cleanPath)
       IN \E r \in {"err", "absent", "dir", "file"} :
          \E size \in (IF r = "file" THEN FileSizes ELSE {0}) :
            /\ loc' = [loc EXCEPT !.cleanPath = cleanPath, !.fileName = fileName,
                          !.obj = [found |-> r \in {"dir", "file"},
                                   isDir |-> r = "dir",
                                   size |-> size]]
            /\ IF r = "err" THEN Fail(500, "list")
               ELSE IF r = "absent" THEN Fail(404, "notFound")
               ELSE IF r = "dir" THEN pc' = "located" /\ UNCHANGED errResp
               ELSE pc' = "located" /\ UNCHANGED errResp
    /\ UNCHANGED <<entry, envVars, chainVars, link, env, resp, dk, twin>>

\* a listing whose search result is not tested for nil
ListSkipsNilCheck ==
    /\ pc = "stored"
    /\ calls' = Append(calls, "List")
    /\ LET cleanPath == FixAndCleanPath(loc.reqPath)
           fileName == Base(cleanPath)
       IN \E r \in {"err", "absent", "dir", "file"} :
          \E size \in (IF r = "file" THEN FileSizes ELSE {0}) :
            /\ loc' = [loc EXCEPT !.cleanPath = cleanPath, !.fileName = fileName,
                          !.obj = [found |-> r \in {"dir", "file"},
                                   isDir |-> r = "dir",
                                   size |-> size]]
            /\ IF r = "err" THEN Fail(500, "list")
               ELSE IF r = "absent" THEN pc' = "located" /\ UNCHANGED errResp
               ELSE IF r = "dir" THEN Fail(400, "directory")
               ELSE pc' = "located" /\ UNCHANGED errResp
    /\ UNCHANGED <<entry, envVars, chainVars, link, env, resp, dk, twin>>

\* the listing and the search for the entry, part_000:141-167
List ==
    /\ pc = "stored"
    /\ calls' = Append(calls, "List")
    /\ LET cleanPath == FixAndCleanPath(loc.reqPath)
           fileName == Base(cleanPath)
       IN \E r \in {"err", "absent", "dir", "file"} :
          \E size \in (IF r = "file" THEN FileSizes ELSE {0}) :
            /\ loc' = [loc EXCEPT !.cleanPath = cleanPath, !.fileName = fileName,
                          !.obj = [found |-> r \in {"dir", "file"},
                                   isDir |-> r = "dir",
                                   size |-> size]]
            /\ IF r = "err" THEN Fail(500, "list")
               ELSE IF r = "absent" THEN Fail(404, "notFound")
               ELSE IF r = "dir" THEN Fail(400, "directory")
               ELSE pc' = "located" /\ UNCHANGED errResp
    /\ UNCHANGED <<entry, envVars, chainVars, link, env, resp, dk, twin>>

\* base64.StdEncoding.EncodeToString: characters are their index in the
\* alphabet, PAD is '='
PAD == 64
ByteAt(b, i) == IF i <= Len(b) THEN b[i] ELSE 0
EncodeToString(b) ==
    [k \in 1..(4 * ((Len(b) + 2) \div 3)) |->
        LET g == (k - 1) \div 4
            pos == (k - 1) % 4
            b0 == ByteAt(b, 3 * g + 1)
            b1 == ByteAt(b, 3 * g + 2)
            b2 == ByteAt(b, 3 * g + 3)
        IN  IF pos = 0 THEN b0 \div 4
            ELSE IF pos = 1 THEN (b0 % 4) * 16 + (b1 \div 16)
            ELSE IF pos = 2
            THEN (IF 3 * g + 2 <= Len(b) THEN (b1 % 16) * 4 + (b2 \div 64) ELSE PAD)
            ELSE (IF 3 * g + 3 <= Len(b) THEN b2 % 64 ELSE PAD)]

\* the crypt branch enters DataKey, part_000:190-192
CallDataKey ==
    /\ entry = "CryptMeta"
    /\ pc = "located"
    /\ loc.owner = "crypt"
    /\ calls' = Append(calls, "DataKey")
    /\ loc' = [loc EXCEPT !.mode = "crypt"]
    /\ EnterDataKey
    /\ pc' = "dataKey"
    /\ UNCHANGED <<entry, envVars, chainVars, link, env, resp, errResp, twin>>

\* a crypt branch that leaves the request path as it was
BranchCryptUnrewritten ==
    /\ entry = "CryptMeta"
    /\ pc = "dataKey"
    /\ IF dk.ret.err = ""
       THEN /\ loc' = [loc EXCEPT
                    !.dataKeyEncoded = EncodeToString(dk.ret.key),
                    !.requestPath = loc.cleanPath,
                    !.fileHeaderSize = FileHeaderSize,
                    !.blockDataSize = DataBlockSize,
                    !.blockHeaderSize = DataBlockHeaderSize,
                    !.encryptedSuffix = "suffix"]
            /\ pc' = "branched"
            /\ UNCHANGED errResp
       ELSE /\ Fail(500, "dataKey")
            /\ UNCHANGED loc
    /\ dk' = NoFrame
    /\ UNCHANGED <<entry, envVars, chainVars, link, env, resp, calls, twin>>

\* the crypt branch from the return of DataKey up to the lookup, part_000:192-204
BranchCrypt ==
    /\ entry = "CryptMeta"
    /\ pc = "dataKey"
    /\ IF dk.ret.err = ""
       THEN /\ loc' = [loc EXCEPT
                    !.dataKeyEncoded = EncodeToString(dk.ret.key),
                    !.requestPath =
                        EncryptedPath(TrimPrefix(loc.cleanPath, OwnerMountPath)),
                    !.fileHeaderSize = FileHeaderSize,
                    !.blockDataSize = DataBlockSize,
                    !.blockHeaderSize = DataBlockHeaderSize,
                    !.encryptedSuffix = "suffix"]
            /\ pc' = "branched"
            /\ UNCHANGED errResp
       ELSE /\ Fail(500, "dataKey")
            /\ UNCHANGED loc
    /\ dk' = NoFrame
    /\ UNCHANGED <<entry, envVars, chainVars, link, env, resp, calls, twin>>

\* the plain branch up to the lookup, part_000:174 and 222-223
BranchPlain ==
    /\ pc = "located"
    /\ loc.owner = "plain"
    /\ loc' = [loc EXCEPT !.mode = "plain", !.requestPath = loc.cleanPath]
    /\ pc' = "branched"
    /\ UNCHANGED <<entry, envVars, chainVars, link, env, resp, errResp, calls, dk, twin>>

\* op.GetStorageAndActualPath(requestPath), part_000:205-209 and 224-228
NaiveLookup ==
    /\ pc = "branched"
    /\ calls' = Append(calls, "GetStorageAndActualPath")
    /\ \E r \in LookupOutcomes(FixAndCleanPath(loc.requestPath)) :
        /\ resolveTab' = Remember(FixAndCleanPath(loc.requestPath), r)
        /\ IF r.err
           THEN /\ Fail(500, "locate")
                /\ UNCHANGED loc
           ELSE /\ loc' = [loc EXCEPT !.remoteStorage = r.storage,
                                      !.remoteActualPath = r.actualPath]
                /\ pc' = "lookedUp"
                /\ UNCHANGED errResp
    /\ UNCHANGED <<entry, resolverCap, chainVars, link, env, resp, dk, twin>>

\* the call buildStorageChain(requestPath), part_000:210 and 229
CallBuildStorageChain ==
    /\ pc = "lookedUp"
    /\ calls' = Append(calls, "buildStorageChain")
    /\ EnterChain(loc.requestPath)
    /\ pc' = "chain"
    /\ UNCHANGED <<entry, envVars, loc, link, env, resp, errResp, dk, twin>>

\* the result of the single-hop lookup kept although a chain was resolved
TerminalNaive(chain) ==
    [storage |-> loc.remoteStorage, actualPath |-> loc.remoteActualPath]

\* the raw path of the last node taken for its actual path
TerminalRawPath(chain) ==
    IF Len(chain) > 0
    THEN [storage |-> chain[Len(chain)].storage, actualPath |-> chain[Len(chain)].rawPath]
    ELSE [storage |-> loc.remoteStorage, actualPath |-> loc.remoteActualPath]

\* the terminal node supersedes the lookup, part_000:215-219 and 234-238
Terminal(chain) ==
    IF Len(chain) > 0
    THEN [storage |-> chain[Len(chain)].storage, actualPath |-> chain[Len(chain)].actualPath]
    ELSE [storage |-> loc.remoteStorage, actualPath |-> loc.remoteActualPath]

\* the return of buildStorageChain into CryptMeta, part_000:210-221 and 229-240;
\* the locals of buildStorageChain end with the call
ChainReturn ==
    /\ entry = "CryptMeta"
    /\ pc = "chain"
    /\ exitReason # ""
    /\ ReturnChain
    /\ IF exitReason = "error"
       THEN /\ Fail(500, "chain")
            /\ UNCHANGED loc
       ELSE /\ loc' = [loc EXCEPT !.remoteStorage = Terminal(nodes).storage,
                                  !.remoteActualPath = Terminal(nodes).actualPath,
                                  !.encryptionPath = loc.requestPath,
                                  !.encryptionActual = Terminal(nodes).actualPath]
            /\ pc' = "chainResolved"
            /\ UNCHANGED errResp
    /\ depth' = 0
    /\ currentRawPath' = <<>>
    /\ visited' = {}
    /\ nodes' = <<>>
    /\ hops' = <<>>
    /\ lastLookup' = ErrResult
    /\ exitReason' = ""
    /\ UNCHANGED <<entry, envVars, chainInput, lookups, link, env, resp, calls, dk, twin>>

\* ------------------------------------------------------------ the link
NativeURL(s, p) == [kind |-> "native", storage |-> s, path |-> p, sign |-> FALSE]
DownProxyURL(s, p) == [kind |-> "downproxy", storage |-> s, path |-> p, sign |-> FALSE]
\* GetApiUrl(c) + "/p" + EncodePath(path), with "?sign=" + Sign(path) when signed
LocalProxyURL(p, signed) == [kind |-> "local", storage |-> 0, path |-> p, sign |-> signed]

\* http.Header values a backend link may carry
LinkHeaders == {<<>>, [Cookie |-> <<"a", "b">>, Range |-> <<"c">>]}
ConcurrencyHints == {0, 1} \cup ((maxConcurrency - 1)..MaxLinkConcurrency)
\* part-size hint, ContentLength and the object returned beside the link
LinkShapes == {[PartSize |-> 0, ContentLength |-> 0, obj |-> [nil |-> TRUE, size |-> 0]],
               [PartSize |-> 4, ContentLength |-> 0, obj |-> [nil |-> FALSE, size |-> 7]],
               [PartSize |-> 4, ContentLength |-> 51, obj |-> [nil |-> FALSE, size |-> 7]]}

Links ==
    {[state |-> "open", closes |-> 0,
      URL |-> NativeURL(loc.remoteStorage, loc.remoteActualPath),
      Header |-> h, Concurrency |-> c, PartSize |-> sh.PartSize,
      ContentLength |-> sh.ContentLength, obj |-> sh.obj] :
        h \in LinkHeaders, c \in ConcurrencyHints, sh \in LinkShapes}

\* a link fetched from the result of the single-hop lookup, before the chain
LinkFetchBeforeChain ==
    /\ pc \in {"lookedUp", "chainResolved"}
    /\ calls' = Append(calls, "Link")
    /\ \/ /\ Fail(500, "link")
          /\ UNCHANGED link
       \/ /\ \E l \in Links : link' = l
          /\ pc' = "linkFetched"
          /\ UNCHANGED errResp
    /\ UNCHANGED <<entry, envVars, chainVars, loc, env, resp, dk, twin>>

\* op.Link and the deferred Close, part_000:243-248
LinkFetch ==
    /\ pc = "chainResolved"
    /\ calls' = Append(calls, "Link")
    /\ \/ /\ Fail(500, "link")
          /\ UNCHANGED link
       \/ /\ \E l \in Links : link' = l
          /\ pc' = "linkFetched"
          /\ UNCHANGED errResp
    /\ UNCHANGED <<entry, envVars, chainVars, loc, env, resp, dk, twin>>

\* -------------------------------------------------- the delivery decision
\* what the decision may read: the configuration of the storages of the chain
DownProxyQueries ==
    {<<storageChain[i].storage, storageChain[i].rawPath>> : i \in 1..Len(storageChain)}
    \cup {<<loc.remoteStorage, loc.encryptionPath>>}

Envs ==
    [downProxied : SUBSET DownProxyQueries, mustProxy : BOOLEAN, webProxy : BOOLEAN,
     signStorage : BOOLEAN, signAll : BOOLEAN]

\* common.GenerateDownProxyURL(storage, path): "" unless a template applies
GenerateDownProxyURL(e, s, p) ==
    IF <<s, p>> \in e.downProxied THEN DownProxyURL(s, p) ELSE NoURL

\* the candidates collected by the loop, part_000:114-119
ProxyCandidates(e, chain) ==
    SelectSeq([i \in 1..Len(chain) |->
                  GenerateDownProxyURL(e, chain[i].storage, chain[i].rawPath)],
              LAMBDA u : u # NoURL)

\* part_000:110-127
PickFirstCandidate(e, chain) ==
    IF Len(ProxyCandidates(e, chain)) >= 1 THEN ProxyCandidates(e, chain)[1] ELSE NoURL
pickNestedProxyURL(e, chain) ==
    LET candidates == ProxyCandidates(e, chain)
    IN  IF Len(chain) = 0 THEN NoURL
        ELSE IF Len(candidates) >= 2 THEN candidates[2]
        ELSE IF Len(candidates) = 1 THEN candidates[1]
        ELSE NoURL

SelectURLMustProxyOnly(e) ==
    LET selectedProxy == pickNestedProxyURL(e, storageChain)
        proxyURL == GenerateDownProxyURL(e, loc.remoteStorage, loc.encryptionPath)
    IN  IF selectedProxy # NoURL
        THEN [useProxy |-> TRUE, url |-> selectedProxy]
        ELSE IF proxyURL # NoURL
        THEN [useProxy |-> TRUE, url |-> proxyURL]
        ELSE IF e.mustProxy
        THEN [useProxy |-> TRUE,
              url |-> LocalProxyURL(loc.encryptionPath, e.signStorage \/ e.signAll)]
        ELSE [useProxy |-> FALSE, url |-> link.URL]

SelectURLForcedFirst(e) ==
    LET selectedProxy == pickNestedProxyURL(e, storageChain)
        proxyURL == GenerateDownProxyURL(e, loc.remoteStorage, loc.encryptionPath)
    IN  IF e.mustProxy \/ e.webProxy
        THEN [useProxy |-> TRUE,
              url |-> LocalProxyURL(loc.encryptionPath, e.signStorage \/ e.signAll)]
        ELSE IF selectedProxy # NoURL
        THEN [useProxy |-> TRUE, url |-> selectedProxy]
        ELSE IF proxyURL # NoURL
        THEN [useProxy |-> TRUE, url |-> proxyURL]
        ELSE [useProxy |-> FALSE, url |-> link.URL]

\* a selection that signs the local proxy URL on the global setting alone
SelectURLSignAllOnly(e) ==
    LET selectedProxy == pickNestedProxyURL(e, storageChain)
        proxyURL == GenerateDownProxyURL(e, loc.remoteStorage, loc.encryptionPath)
    IN  IF selectedProxy # NoURL
        THEN [useProxy |-> TRUE, url |-> selectedProxy]
        ELSE IF proxyURL # NoURL
        THEN [useProxy |-> TRUE, url |-> proxyURL]
        ELSE IF e.mustProxy \/ e.webProxy
        THEN [useProxy |-> TRUE, url |-> LocalProxyURL(loc.encryptionPath, e.signAll)]
        ELSE [useProxy |-> FALSE, url |-> link.URL]

\* part_000:250-266
SelectURL(e) ==
    LET selectedProxy == pickNestedProxyURL(e, storageChain)
        proxyURL == GenerateDownProxyURL(e, loc.remoteStorage, loc.encryptionPath)
    IN  IF selectedProxy # NoURL
        THEN [useProxy |-> TRUE, url |-> selectedProxy]
        ELSE IF proxyURL # NoURL
        THEN [useProxy |-> TRUE, url |-> proxyURL]
        ELSE IF e.mustProxy \/ e.webProxy
        THEN [useProxy |-> TRUE,
              url |-> LocalProxyURL(loc.encryptionPath, e.signStorage \/ e.signAll)]
        ELSE [useProxy |-> FALSE, url |-> link.URL]

\* part_000:268-273
EncryptedSize ==
    IF link.ContentLength > 0 THEN link.ContentLength
    ELSE IF ~link.obj.nil THEN link.obj.size
    ELSE 0

\* strings.Join(v, ",")
RECURSIVE Join(_)
Join(v) ==
    IF Len(v) = 0 THEN <<>>
    ELSE IF Len(v) = 1 THEN <<v[1]>>
    ELSE <<v[1], ",">> \o Join(Tail(v))

HeaderMapAlways(useProxy) ==
    [nil |-> FALSE, kv |-> [k \in DOMAIN link.Header |-> Join(link.Header[k])]]

\* part_000:275-281
HeaderMap(useProxy) ==
    IF ~useProxy
    THEN [nil |-> FALSE, kv |-> [k \in DOMAIN link.Header |-> Join(link.Header[k])]]
    ELSE NilMap

HintsUncapped(useProxy) ==
    IF useProxy THEN [concurrency |-> 0, partSize |-> 0]
    ELSE [concurrency |-> link.Concurrency, partSize |-> link.PartSize]

\* part_000:284-291
Hints(useProxy) ==
    IF useProxy THEN [concurrency |-> 0, partSize |-> 0]
    ELSE IF link.Concurrency > maxConcurrency
    THEN [concurrency |-> maxConcurrency, partSize |-> link.PartSize]
    ELSE [concurrency |-> link.Concurrency, partSize |-> link.PartSize]

\* part_000:250-291
Decide ==
    /\ entry = "CryptMeta"
    /\ pc = "linkFetched"
    /\ \E e \in Envs :
        /\ env' = e
        /\ loc' = [loc EXCEPT !.useProxy = SelectURL(e).useProxy,
                              !.remoteURL = SelectURL(e).url,
                              !.encryptedSize = EncryptedSize,
                              !.headerMap = HeaderMap(SelectURL(e).useProxy),
                              !.concurrency = Hints(SelectURL(e).useProxy).concurrency,
                              !.partSize = Hints(SelectURL(e).useProxy).partSize]
    /\ pc' = "deliveryDecided"
    /\ UNCHANGED <<entry, envVars, chainVars, link, resp, errResp, calls, dk, twin>>

\* part_000:293-316
Respond ==
    /\ pc = "deliveryDecided"
    /\ resp' = [mode |-> loc.mode, path |-> loc.cleanPath, file_name |-> loc.fileName,
                size |-> loc.obj.size, encrypted_size |-> loc.encryptedSize,
                file_header_size |-> loc.fileHeaderSize,
                block_data_size |-> loc.blockDataSize,
                block_header_size |-> loc.blockHeaderSize,
                data_key |-> loc.dataKeyEncoded,
                encrypted_suffix |-> loc.encryptedSuffix,
                encrypted_path |-> loc.encryptionPath,
                encrypted_actual_path |-> loc.encryptionActual,
                remote |-> [url |-> loc.remoteURL, method |-> "GET",
                            headers |-> loc.headerMap,
                            concurrency |-> loc.concurrency,
                            part_size |-> loc.partSize,
                            raw_path |-> loc.remoteActualPath]]
    /\ calls' = Append(calls, "SuccessResp")
    /\ pc' = "responded"
    /\ UNCHANGED <<entry, envVars, chainVars, loc, link, env, errResp, dk, twin>>

ReturnWithoutClose ==
    /\ pc = "responded"
    /\ pc' = "done"
    /\ UNCHANGED <<entry, envVars, chainVars, handlerVars>>

\* the function returns and the deferred remoteLink.Close() runs, part_000:248 and 317
Return ==
    /\ pc = "responded"
    /\ link' = [link EXCEPT !.state = "closed", !.closes = @ + 1]
    /\ pc' = "done"
    /\ UNCHANGED <<entry, envVars, chainVars, loc, env, resp, errResp, calls, dk, twin>>

\* --------------------------------------- the earlier, single-hop CryptMeta
\* server/handles/crypt_meta.go runs the statements of the chain-resolving
\* handler up to the lookup, fetches the link from the storage the lookup
\* named, and decides without nested candidates.  Its locals are written here
\* as functions of what the collaborators answered.
SingleHopLookup == resolveTab[FixAndCleanPath(loc.requestPath)]

\* crypt_meta.go:149-161
SelectURLSingleHop(e) ==
    LET proxyURL == GenerateDownProxyURL(e, SingleHopLookup.storage, loc.requestPath)
    IN  IF proxyURL # NoURL
        THEN [useProxy |-> TRUE, url |-> proxyURL]
        ELSE IF e.mustProxy \/ e.webProxy
        THEN [useProxy |-> TRUE,
              url |-> LocalProxyURL(loc.requestPath, e.signStorage \/ e.signAll)]
        ELSE [useProxy |-> FALSE,
              url |-> NativeURL(SingleHopLookup.storage, SingleHopLookup.actualPath)]

\* crypt_meta.go:170-176
HeaderMapSingleHop(useProxy) ==
    IF ~useProxy
    THEN [nil |-> FALSE, kv |-> [k \in DOMAIN link.Header |-> Join(link.Header[k])]]
    ELSE NilMap

\* crypt_meta.go:178-186
HintsSingleHop(useProxy) ==
    IF useProxy THEN [concurrency |-> 0, partSize |-> 0]
    ELSE IF link.Concurrency > 16
    THEN [concurrency |-> 16, partSize |-> link.PartSize]
    ELSE [concurrency |-> link.Concurrency, partSize |-> link.PartSize]

\* crypt_meta.go:163-168
EncryptedSizeSingleHop ==
    IF link.ContentLength > 0 THEN link.ContentLength
    ELSE IF ~link.obj.nil THEN link.obj.size
    ELSE 0

\* crypt_meta.go:188-211
ResponseSingleHop(e) ==
    LET selected == SelectURLSingleHop(e)
        hints == HintsSingleHop(selected.useProxy)
    IN  [mode |-> loc.mode, path |-> loc.cleanPath, file_name |-> loc.fileName,
         size |-> loc.obj.size, encrypted_size |-> EncryptedSizeSingleHop,
         file_header_size |-> loc.fileHeaderSize,
         block_data_size |-> loc.blockDataSize,
         block_header_size |-> loc.blockHeaderSize,
         data_key |-> loc.dataKeyEncoded,
         encrypted_suffix |-> loc.encryptedSuffix,
         encrypted_path |-> loc.requestPath,
         encrypted_actual_path |-> SingleHopLookup.actualPath,
         remote |-> [url |-> selected.url, method |-> "GET",
                     headers |-> HeaderMapSingleHop(selected.useProxy),
                     concurrency |-> hints.concurrency,
                     part_size |-> hints.partSize,
                     raw_path |-> SingleHopLookup.actualPath]]

\* the status the single-hop handler answers a failed step with,
\* crypt_meta.go:50-57, 66-86, 109-113, 123-137, 142-146; it has no chain step
StatusSingleHop(step) ==
    CASE step = "bind" -> 400
      [] step = "storage" -> 500
      [] step = "list" -> 500
      [] step = "notFound" -> 404
      [] step = "directory" -> 400
      [] step = "dataKey" -> 500
      [] step = "locate" -> 500
      [] step = "link" -> 500
      [] OTHER -> 0

\* ------------------------------------ the delivery decision, taken twice
\* longest chain the decision is handed
MaxDeliveryNodes == 2

\* Chains as buildStorageChain returns them: the i-th node is reached by the
\* raw path "/i"; storages may repeat and are named in order of appearance.
InOrderOfAppearance(c) ==
    /\ c[1] = 1
    /\ \A i \in 2..Len(c) : \E j \in 1..(i - 1) : c[i] <= c[j] + 1
DeliveryChains ==
    {[i \in 1..Len(c) |->
         [storage |-> c[i], rawPath |-> FreshRawPath(i), actualPath |-> FreshRawPath(i)]] :
        c \in {d \in UNION {[1..n -> Storages] : n \in 1..MaxDeliveryNodes} :
                  InOrderOfAppearance(d)}}

ChainStorages == {storageChain[i].storage : i \in 1..Len(storageChain)}

\* the configuration of the storages of the chain and the settings
Configs ==
    [downProxied : SUBSET DownProxyQueries,
     mustProxy : [ChainStorages -> BOOLEAN], webProxy : [ChainStorages -> BOOLEAN],
     signStorage : BOOLEAN, signAll : BOOLEAN]

\* configurations that differ from c in the flags of non-terminal storages only
Variants(c) ==
    LET Same(f) == {g \in [ChainStorages -> BOOLEAN] :
                       g[loc.remoteStorage] = f[loc.remoteStorage]}
    IN  {[c EXCEPT !.mustProxy = m, !.webProxy = w] :
            m \in Same(c.mustProxy), w \in Same(c.webProxy)}

\* a decision that proxies when any storage of the chain is flagged
ReadConfigAnyNode(c) ==
    [downProxied |-> c.downProxied,
     mustProxy |-> \E x \in ChainStorages : c.mustProxy[x],
     webProxy |-> \E x \in ChainStorages : c.webProxy[x],
     signStorage |-> c.signStorage, signAll |-> c.signAll]

\* what the decision reads of a configuration: remoteStorage.Config().MustProxy()
\* and remoteStorage.GetStorage().WebProxy, part_000:256-262
ReadConfig(c) ==
    [downProxied |-> c.downProxied,
     mustProxy |-> c.mustProxy[loc.remoteStorage],
     webProxy |-> c.webProxy[loc.remoteStorage],
     signStorage |-> c.signStorage, signAll |-> c.signAll]

\* part_000:250-291
Outcome(e) ==
    LET selected == SelectURL(e)
        hints == Hints(selected.useProxy)
    IN  [useProxy |-> selected.useProxy, remoteURL |-> selected.url,
         headerMap |-> HeaderMap(selected.useProxy),
         concurrency |-> hints.concurrency, partSize |-> hints.partSize]

\* the state of CryptMeta after op.Link, part_000:215-248, for a chain and a link
DeliveryCall ==
    /\ entry = "Delivery"
    /\ pc = "idle"
    /\ \E chain \in DeliveryChains, l \in Links :
        /\ storageChain' = chain
        /\ chainRet' = "ok"
        /\ chainInput' = chain[1].rawPath
        /\ loc' = [loc EXCEPT !.mode = "plain",
                              !.requestPath = chain[1].rawPath,
                              !.remoteStorage = chain[Len(chain)].storage,
                              !.remoteActualPath = chain[Len(chain)].actualPath,
                              !.encryptionPath = chain[1].rawPath,
                              !.encryptionActual = chain[Len(chain)].actualPath]
        /\ link' = [l EXCEPT !.URL = NativeURL(chain[Len(chain)].storage,
                                               chain[Len(chain)].actualPath)]
    /\ pc' = "linkFetched"
    /\ UNCHANGED <<entry, envVars, depth, currentRawPath, visited, nodes, hops, lookups,
                   lastLookup, exitReason, env, resp, errResp, calls, dk, twin>>

\* the decision under a configuration, and under one of its variants
DecidePair ==
    /\ entry = "Delivery"
    /\ pc = "linkFetched"
    /\ \E c \in Configs : \E d \in Variants(c) :
        LET first == Outcome(ReadConfig(c))
        IN  /\ env' = ReadConfig(c)
            /\ loc' = [loc EXCEPT !.useProxy = first.useProxy,
                                  !.remoteURL = first.remoteURL,
                                  !.encryptedSize = EncryptedSize,
                                  !.headerMap = first.headerMap,
                                  !.concurrency = first.concurrency,
                                  !.partSize = first.partSize]
            /\ twin' = [active |-> TRUE,
                        flagged |-> \E x \in ChainStorages \ {loc.remoteStorage} :
                                        c.mustProxy[x] \/ c.webProxy[x]
                                        \/ d.mustProxy[x] \/ d.webProxy[x],
                        outcome |-> Outcome(ReadConfig(d))]
    /\ pc' = "deliveryDecided"
    /\ UNCHANGED <<entry, envVars, chainVars, link, resp, errResp, calls, dk>>

InitEnv ==
    /\ resolveTab = <<>>
    /\ resolverCap = [s \in Storages |-> "?"]

InitChainVars ==
    /\ chainInput = <<>>
    /\ depth = 0
    /\ currentRawPath = <<>>
    /\ visited = {}
    /\ nodes = <<>>
    /\ hops = <<>>
    /\ lookups = 0
    /\ lastLookup = ErrResult
    /\ exitReason = ""
    /\ chainRet = "none"
    /\ storageChain = <<>>

InitChain ==
    /\ entry = "ResolveChain"
    /\ pc = "idle"
    /\ InitEnv
    /\ InitChainVars
    /\ InitHandlerVars

NextChain ==
    \/ ResolveChainCall
    \/ ChainStep
    \/ ResolveChainReturn

SpecChain == InitChain /\ [][NextChain]_vars

InitDataKey ==
    /\ entry = "DataKey"
    /\ pc = "idle"
    /\ InitEnv
    /\ InitChainVars
    /\ InitHandlerVars

NextDataKey ==
    \/ DataKeyCall
    \/ DataKeyReturn

SpecDataKey == InitDataKey /\ [][NextDataKey]_vars

InitDelivery ==
    /\ entry = "Delivery"
    /\ pc = "idle"
    /\ InitEnv
    /\ InitChainVars
    /\ InitHandlerVars

NextDelivery ==
    \/ DeliveryCall
    \/ DecidePair
    \/ Respond
    \/ Return

SpecDelivery == InitDelivery /\ [][NextDelivery]_vars

Init ==
    /\ entry = "CryptMeta"
    /\ pc = "idle"
    /\ InitEnv
    /\ InitChainVars
    /\ InitHandlerVars

Next ==
    \/ Bind
    \/ GetStorage
    \/ List
    \/ CallDataKey
    \/ BranchCrypt
    \/ BranchPlain
    \/ NaiveLookup
    \/ CallBuildStorageChain
    \/ ChainStep
    \/ ChainReturn
    \/ LinkFetch
    \/ Decide
    \/ Respond
    \/ Return

Spec == Init /\ [][Next]_vars

\* ------------------------------------------------- properties of the resolver
\* the (mount path, actual path) identity of a node or of a lookup result
IdentityOf(n) == <<MountPath(n.storage), n.actualPath>>

ChainEnded == entry = "ResolveChain" /\ pc = "returned"

\* C1: whatever the mount table answers, circular or not, buildStorageChain
\* makes at most 16 lookups: after the 16th iteration the loop has ended.
C1_AtMostSixteenLookups ==
    /\ lookups <= maxDepth
    /\ depth <= maxDepth
    /\ (lookups = maxDepth => exitReason # "")

\* C1 witness: storage A re-routes to B and B re-routes back to A, and the
\* call has returned.
C1_CircularWalkReturned ==
    /\ ChainEnded
    /\ chainRet = "ok"
    /\ Len(storageChain) = 2
    /\ hops[2].next = storageChain[1].rawPath
    /\ lookups = 3
    /\ IdentityOf(lastLookup) = IdentityOf(storageChain[1])

NoDuplicateIdentity(chain) ==
    \A i, j \in 1..Len(chain) :
        i # j => IdentityOf(chain[i]) # IdentityOf(chain[j])

\* C2: no two nodes of the chain share a (mount path, actual path) identity,
\* and a lookup that answers with an identity already in the chain ends the
\* loop with the chain unchanged and the call returns the chain, not an error.
C2_NoDuplicateIdentity ==
    [][/\ NoDuplicateIdentity(nodes')
       /\ NoDuplicateIdentity(storageChain')
       /\ (/\ pc = "chain"
           /\ lookups' = lookups + 1
           /\ ~lastLookup'.err
           /\ \E i \in 1..Len(nodes) : IdentityOf(nodes[i]) = IdentityOf(lastLookup'))
          => (nodes' = nodes /\ exitReason' = "cycle")
       /\ (exitReason = "cycle" /\ pc' = "returned")
          => (chainRet' = "ok" /\ storageChain' = nodes)]_vars

\* C2 witness: a walk of three nodes came back to the identity of its second
\* node and returned the three nodes.
C2_RevisitStopsTheWalk ==
    /\ ChainEnded
    /\ chainRet = "ok"
    /\ Len(storageChain) = 3
    /\ lookups = 4
    /\ IdentityOf(lastLookup) = IdentityOf(storageChain[2])

\* every lookup of the walk succeeded and no two of them answered with the
\* same identity
AllIdentitiesDistinct ==
    /\ ~lastLookup.err
    /\ NoDuplicateIdentity(nodes)
    /\ lookups > Len(nodes) =>
          \A i \in 1..Len(nodes) : IdentityOf(nodes[i]) # IdentityOf(lastLookup)

\* every node's storage re-routed to a path other than the node's own
EveryHopReroutes ==
    \A i \in 1..Len(hops) :
        hops[i].resolver /\ hops[i].candidates /\ hops[i].next # nodes[i].rawPath

\* C3: a re-routing sequence of distinct identities, each hop re-routing to a
\* different path, ends only at the depth bound: the call returns exactly 16
\* nodes and no error; and no returned chain has more than 16 nodes.
C3_TruncatedAtSixteen ==
    ChainEnded =>
        /\ Len(storageChain) <= maxDepth
        /\ (AllIdentitiesDistinct /\ EveryHopReroutes)
              => (chainRet = "ok" /\ Len(storageChain) = maxDepth)

\* the storage of node i is terminal: it cannot re-route, or names no candidate
TerminalHop(i) == ~hops[i].resolver \/ ~hops[i].candidates

\* the walk was cut short at node i: the first candidate is the node's own
\* path, or a path whose identity key the walk had visited
CutShortAt(i) ==
    \/ hops[i].next = nodes[i].rawPath
    \/ /\ hops[i].next \in DOMAIN resolveTab
       /\ ~resolveTab[hops[i].next].err
       /\ \E j \in 1..Len(nodes) : KeyOf(resolveTab[hops[i].next]) = KeyOf(nodes[j])

\* C4 as claimed: the last node of every returned chain is a terminal,
\* non-re-routing storage.
C4_LastNodeTerminal ==
    (ChainEnded /\ chainRet = "ok" /\ Len(storageChain) > 0)
        => TerminalHop(Len(storageChain))

\* C4 amended: the last node of a returned chain is terminal unless the walk
\* was cut short there by the self-loop test, by the visited-key test, or by
\* the depth bound with 16 nodes in the chain.
C4_LastNodeTerminalOrCutShort ==
    (ChainEnded /\ chainRet = "ok" /\ Len(storageChain) > 0)
        => \/ TerminalHop(Len(storageChain))
           \/ CutShortAt(Len(storageChain))
           \/ Len(storageChain) = maxDepth

\* C4 witness: a chain of two nodes returned whose last storage can re-route
\* and names no candidate.
C4_WalkReachedTerminal ==
    /\ ChainEnded
    /\ chainRet = "ok"
    /\ Len(storageChain) = 2
    /\ hops[2].resolver
    /\ ~hops[2].candidates

\* ---------------------------------------------- properties of the handler
Decided == entry = "CryptMeta" /\ pc \in {"deliveryDecided", "responded", "done"}
Responded == entry = "CryptMeta" /\ pc \in {"responded", "done"}

\* the chain nodes, in chain order, for which a down-proxy template applies
ProxiedNodes ==
    {i \in 1..Len(storageChain) :
        <<storageChain[i].storage, storageChain[i].rawPath>> \in env.downProxied}
\* a down-proxy template applies to the terminal storage and the encrypted path
TerminalProxied == <<loc.remoteStorage, loc.encryptionPath>> \in env.downProxied
ForcedProxy == env.mustProxy \/ env.webProxy
NodeCandidate(i) == DownProxyURL(storageChain[i].storage, storageChain[i].rawPath)

\* C5: when the storage the link was fetched from is must-proxy or web-proxy,
\* delivery is through a proxy: useProxy is true and the URL of the response
\* is not the link's native URL.
C5_ForcedProxyNeverNative ==
    /\ (Decided /\ ForcedProxy) => (loc.useProxy /\ loc.remoteURL # link.URL)
    /\ (Responded /\ ForcedProxy) =>
          (resp.remote.url # link.URL /\ resp.remote.url.kind # "native")

\* C5 witness: a web-proxy terminal storage with no down-proxy template
\* anywhere, answered with the local "/p" URL.
C5_WebProxyServedLocally ==
    /\ pc = "done"
    /\ env.webProxy /\ ~env.mustProxy
    /\ env.downProxied = {}
    /\ resp.remote.url.kind = "local"

\* C6: the URL is chosen by first match: a chain node's down-proxy candidate,
\* else the terminal storage's down-proxy URL for the encrypted path, else the
\* local "/p" URL when the terminal storage is must-proxy or web-proxy, else
\* the link's native URL.
C6_FirstMatchWins ==
    Responded =>
        IF ProxiedNodes # {}
        THEN \E i \in ProxiedNodes : resp.remote.url = NodeCandidate(i)
        ELSE IF TerminalProxied
        THEN resp.remote.url = DownProxyURL(loc.remoteStorage, loc.encryptionPath)
        ELSE IF ForcedProxy
        THEN /\ resp.remote.url.kind = "local"
             /\ resp.remote.url.path = loc.encryptionPath
        ELSE resp.remote.url = link.URL /\ resp.remote.url.kind = "native"

\* C6 witness: a chain node has a down-proxy candidate and the terminal
\* storage is must-proxy as well; the node's candidate was chosen, not the
\* local "/p" URL.
C6_CandidateBeforeForced ==
    /\ pc = "done"
    /\ ProxiedNodes = {1}
    /\ env.mustProxy
    /\ resp.remote.url = NodeCandidate(1)

\* the second smallest element of a set of at least two numbers
SecondOf(S) ==
    CHOOSE i \in S : Cardinality({j \in S : j < i}) = 1

\* C7: with two or more chain nodes exposing a down-proxy candidate the URL
\* is the candidate of the second such node in chain order; with exactly one
\* it is that node's candidate.
C7_SecondCandidateWins ==
    Responded =>
        /\ Cardinality(ProxiedNodes) >= 2
              => resp.remote.url = NodeCandidate(SecondOf(ProxiedNodes))
        /\ Cardinality(ProxiedNodes) = 1
              => \A i \in ProxiedNodes : resp.remote.url = NodeCandidate(i)

\* C7 witness: three nodes expose a candidate and the second node's is used.
C7_ThreeCandidatesSecondUsed ==
    /\ pc = "done"
    /\ ProxiedNodes = {1, 2, 3}
    /\ resp.remote.url = NodeCandidate(2)
    /\ resp.remote.url # NodeCandidate(1)
    /\ resp.remote.url # NodeCandidate(3)

\* the "headers" field appears in the JSON: the map is neither nil nor empty
\* (omitempty, part_000:37)
HeadersPresent(r) == ~r.remote.headers.nil /\ DOMAIN r.remote.headers.kv # {}

\* C8: when a proxy URL is selected the response carries no headers and the
\* concurrency and part-size hints are zero, whatever the link carried;
\* headers are present only when delivery is direct.
C8_ProxySuppressesHeadersAndHints ==
    Responded =>
        /\ resp.remote.url.kind \in {"downproxy", "local"} =>
              /\ resp.remote.headers.nil
              /\ ~HeadersPresent(resp)
              /\ resp.remote.concurrency = 0
              /\ resp.remote.part_size = 0
        /\ HeadersPresent(resp) => resp.remote.url = link.URL

\* C8 witness: a must-proxy terminal storage whose link carried headers, a
\* concurrency hint and a part size.
C8_ForcedProxyDropsLinkHints ==
    /\ pc = "done"
    /\ env.mustProxy
    /\ resp.remote.url.kind = "local"
    /\ DOMAIN link.Header # {}
    /\ link.Concurrency > 0
    /\ link.PartSize > 0

\* C9: when no proxy condition applies the response's headers are the link's
\* headers (one entry per key, the key's values joined by ",") and its
\* concurrency is min(link concurrency, 16).
C9_DirectPassesHeadersAndCapsConcurrency ==
    (Responded /\ ProxiedNodes = {} /\ ~TerminalProxied /\ ~ForcedProxy) =>
        /\ ~resp.remote.headers.nil
        /\ DOMAIN resp.remote.headers.kv = DOMAIN link.Header
        /\ \A k \in DOMAIN link.Header :
              resp.remote.headers.kv[k] = Join(link.Header[k])
        /\ resp.remote.concurrency =
              (IF link.Concurrency < 16 THEN link.Concurrency ELSE 16)

\* C9 witness: direct delivery of a link that carried headers and suggested
\* more than 16 connections.
C9_DirectDeliveryOverSixteen ==
    /\ pc = "done"
    /\ resp.remote.url.kind = "native"
    /\ link.Concurrency > 16
    /\ resp.remote.concurrency = 16
    /\ resp.remote.headers.kv = [Cookie |-> <<"a", ",", "b">>, Range |-> <<"c">>]

\* C10: the link acquired by the link fetch is closed exactly once on every
\* exit of the request that follows the acquisition, not before its fields
\* were copied into the response, and no request ends holding an open link.
C10_LinkReleasedOnce ==
    /\ link.closes <= 1
    /\ (link.state = "closed") = (link.closes = 1)
    /\ link.state = "closed" => (resp # NoResp /\ resp.remote.url = loc.remoteURL)
    /\ pc \in {"done", "error"} => link.state # "open"
    /\ (pc = "done") = (link.state = "closed")
    /\ pc \in {"linkFetched", "deliveryDecided", "responded"} => link.state = "open"

\* C10 witness: a request fetched a link, answered and ended with the link
\* closed once.
C10_RequestEndedLinkClosed ==
    /\ pc = "done"
    /\ resp # NoResp
    /\ link.state = "closed"
    /\ link.closes = 1

\* ------------------------------------------------ properties of the errors
Made(call) == \E i \in 1..Len(calls) : calls[i] = call
TimesMade(call) == Cardinality({i \in 1..Len(calls) : calls[i] = call})
LastCall == IF Len(calls) = 0 THEN "" ELSE calls[Len(calls)]
ListAnswered == entry = "CryptMeta" /\ Made("List") /\ errResp.step # "list"
NothingResolved ==
    /\ ~Made("DataKey")
    /\ ~Made("GetStorageAndActualPath")
    /\ ~Made("buildStorageChain")
    /\ ~Made("Link")
    /\ lookups = 0
    /\ link = NoLink

\* C11: a request whose target entry is a directory ends with a 400 error, and
\* when that error is reported no key has been derived, no storage/actual-path
\* lookup has been made and no link has been fetched for the request.
C11_DirectoryRejectedFirst ==
    (ListAnswered /\ loc.obj.found /\ loc.obj.isDir)
        => /\ pc = "error"
           /\ errResp = [status |-> 400, step |-> "directory"]
           /\ resp = NoResp
           /\ NothingResolved

C11_DirectoryRequested ==
    /\ ListAnswered
    /\ loc.obj.isDir
    /\ errResp.status = 400
    /\ calls = <<"ShouldBind", "GetStorage", "List">>

\* C12: a request whose parent listing holds no entry with the requested base
\* name ends with a 404 error, emits no response field and performs no key
\* derivation, chain resolution or link fetch.
C12_AbsentEntryNotFound ==
    (ListAnswered /\ ~loc.obj.found)
        => /\ pc = "error"
           /\ errResp = [status |-> 404, step |-> "notFound"]
           /\ resp = NoResp
           /\ NothingResolved

C12_AbsentEntryRequested ==
    /\ ListAnswered
    /\ ~loc.obj.found
    /\ loc.fileName = Base(RequestPath)
    /\ errResp.status = 404

\* the collaborator call whose failure an error names
StepCall(step) ==
    CASE step = "bind" -> "ShouldBind"
      [] step = "storage" -> "GetStorage"
      [] step \in {"list", "notFound", "directory"} -> "List"
      [] step = "dataKey" -> "DataKey"
      [] step = "locate" -> "GetStorageAndActualPath"
      [] step = "chain" -> "buildStorageChain"
      [] step = "link" -> "Link"
      [] OTHER -> "none"

ResponseFields ==
    {"mode", "path", "file_name", "size", "encrypted_size", "file_header_size",
     "block_data_size", "block_header_size", "data_key", "encrypted_suffix",
     "encrypted_path", "encrypted_actual_path", "remote"}

OneOutcome ==
    /\ resp = NoResp \/ errResp = NoErr
    /\ (errResp # NoErr) <=> (pc = "error")
    /\ (resp # NoResp) <=> (pc \in {"responded", "done"})
    /\ resp # NoResp => DOMAIN resp = ResponseFields /\ TimesMade("SuccessResp") = 1
    /\ pc = "error" => LastCall = StepCall(errResp.step) /\ ~Made("SuccessResp")

\* C13: every request produces exactly one outcome, a complete response or an
\* error, never both and never a partial response; once a step fails the
\* request reports that step's error and takes no further step: no further
\* collaborator call and no retry.
C13_OneOutcomeErrorAbsorbing ==
    /\ [](entry = "CryptMeta" => OneOutcome)
    /\ [][/\ pc # "error"
          /\ resp # NoResp => resp' = resp
          /\ errResp # NoErr => errResp' = errResp]_vars

C13_LinkFetchFailed ==
    /\ entry = "CryptMeta"
    /\ pc = "error"
    /\ errResp.step = "link"
    /\ calls = <<"ShouldBind", "GetStorage", "List", "GetStorageAndActualPath",
                 "buildStorageChain", "Link">>

\* ------------------------------------------------ properties of the content key
DataKeyReturned == entry = "DataKey" /\ pc = "returned"
ZeroKey(key) == Len(key) = 32 /\ \A i \in 1..Len(key) : key[i] = 0
PasswordRevealsEmpty ==
    /\ dk.active
    /\ ~revealSecret(dk.Password).err
    /\ revealSecret(dk.Password).value = <<>>
DeobfuscationFails(secret) ==
    /\ secret # <<>>
    /\ secret[1] = OBF
    /\ Reveal(Tail(secret)).err

\* C14 as claimed: an overlay whose revealed password is empty gets from
\* DataKey a 32-byte all-zero content key and no error, whatever the stored salt.
C14_EmptyPasswordZeroKey ==
    (DataKeyReturned /\ PasswordRevealsEmpty)
        => dk.ret.err = "" /\ ZeroKey(dk.ret.key)

\* C14 as amended: an overlay whose revealed password is empty gets from
\* DataKey a 32-byte all-zero content key and no error, for every stored salt
\* whose de-obfuscation succeeds.
C14_EmptyPasswordZeroKeyIfSaltReveals ==
    (DataKeyReturned /\ PasswordRevealsEmpty /\ ~DeobfuscationFails(dk.Salt))
        => dk.ret.err = "" /\ ZeroKey(dk.ret.key)

C14_ObscuredEmptyPasswordWithSalt ==
    /\ DataKeyReturned
    /\ dk.Password = <<OBF, 1>>
    /\ dk.Salt = <<2>>
    /\ ZeroKey(dk.ret.key)

DerivationFails ==
    \/ DeobfuscationFails(dk.Password)
    \/ DeobfuscationFails(dk.Salt)
    \/ (revealSecret(dk.Password).value # <<>> /\ dk.derive = "err")

\* C15: if de-obfuscating the password or the salt, or the key stretching,
\* fails, DataKey returns an error and no key, and the request ends in error
\* with no data_key in any response; no default key stands in for a failed
\* derivation.
C15_FailedDerivationIsFatal ==
    /\ []((dk.active /\ DerivationFails) => (dk.ret.err # "" /\ dk.ret.key = <<>>))
    /\ [](errResp.step = "dataKey" => (resp = NoResp /\ loc.dataKeyEncoded = <<>>))
    /\ [][(entry = "CryptMeta" /\ dk.active /\ dk.ret.err # "")
            => /\ pc' = "error"
               /\ errResp' = [status |-> 500, step |-> "dataKey"]
               /\ loc'.dataKeyEncoded = <<>>
               /\ resp' = NoResp]_vars

C15_RequestEndedOnKeyFailure ==
    /\ entry = "CryptMeta"
    /\ pc = "error"
    /\ errResp.step = "dataKey"
    /\ LastCall = "DataKey"

\* ------------------------------------------------ properties of the response
CeilDiv(a, b) == (a + b - 1) \div b
CryptResponse == Responded /\ resp.mode = "crypt"

\* C16: in every successful crypt-mode response encrypted_size equals
\* size + file_header_size + block_header_size * ceil(size / block_data_size).
C16_EncryptedSizeFormula ==
    CryptResponse
        => resp.encrypted_size =
               resp.size + resp.file_header_size
               + resp.block_header_size * CeilDiv(resp.size, resp.block_data_size)

\* reading a padded base64 text back into bytes
IsBase64(c) ==
    /\ Len(c) % 4 = 0
    /\ \A k \in 1..Len(c) : c[k] \in 0..PAD
    /\ \A k \in 1..Len(c) : c[k] = PAD => k >= Len(c) - 1
    /\ (Len(c) > 0 /\ c[Len(c)] # PAD) => c[Len(c) - 1] # PAD
Sextet(c, k) == IF c[k] = PAD THEN 0 ELSE c[k]
DecodeString(c) ==
    LET pads == Cardinality({k \in 1..Len(c) : c[k] = PAD})
    IN  [j \in 1..(3 * (Len(c) \div 4) - pads) |->
            LET g == (j - 1) \div 3
                r == (j - 1) % 3
            IN  IF r = 0 THEN Sextet(c, 4 * g + 1) * 4 + (Sextet(c, 4 * g + 2) \div 16)
                ELSE IF r = 1
                THEN (Sextet(c, 4 * g + 2) % 16) * 16 + (Sextet(c, 4 * g + 3) \div 4)
                ELSE (Sextet(c, 4 * g + 3) % 4) * 64 + Sextet(c, 4 * g + 4)]

CryptFields ==
    /\ resp.data_key # <<>>
    /\ resp.data_key = loc.dataKeyEncoded
    /\ resp.file_header_size = FileHeaderSize
    /\ resp.block_data_size = DataBlockSize
    /\ resp.block_header_size = DataBlockHeaderSize
    /\ chainInput = EncryptedPath(TrimPrefix(FixAndCleanPath(loc.reqPath), OwnerMountPath))
    /\ chainInput # resp.path
    /\ resp.encrypted_path = chainInput

PlainFields ==
    /\ resp.data_key = <<>>
    /\ resp.file_header_size = 0
    /\ resp.block_data_size = 0
    /\ resp.block_header_size = 0
    /\ chainInput = FixAndCleanPath(loc.reqPath)
    /\ chainInput = resp.path
    /\ resp.encrypted_path = chainInput

\* C17: the mode is "crypt" exactly when the storage owning the requested path
\* is an encryption overlay; in crypt mode data_key is the non-empty base64 of
\* the 32-byte content key, the block-layout constants are populated and the
\* chain is resolved on the encrypted virtual path; in plain mode data_key is
\* empty, the constants are zero and the chain is resolved on the unchanged
\* canonical request path.
C17_ModeFollowsOwner ==
    /\ [](Responded =>
            /\ resp.mode \in {"plain", "crypt"}
            /\ (resp.mode = "crypt") <=> (loc.owner = "crypt")
            /\ resp.mode = "crypt" => CryptFields
            /\ resp.mode = "plain" => PlainFields)
    /\ [][(entry = "CryptMeta" /\ dk.active /\ pc' = "branched")
            => /\ Len(dk.ret.key) = 32
               /\ IsBase64(loc'.dataKeyEncoded)
               /\ DecodeString(loc'.dataKeyEncoded) = dk.ret.key]_vars
    /\ [][(entry = "CryptMeta" /\ ~dk.active /\ pc # "located")
            => loc'.dataKeyEncoded = loc.dataKeyEncoded]_vars

C17_CryptResponseWithStretchedKey ==
    /\ CryptResponse
    /\ \E k \in 1..Len(resp.data_key) : resp.data_key[k] \notin {0, PAD}
    /\ Len(storageChain) >= 1

\* ------------------------------------------------ properties of the step order
\* the steps of the assembler, in order
Rank ==
    [idle |-> 1, bound |-> 2, stored |-> 3, located |-> 4, dataKey |-> 5, branched |-> 6,
     lookedUp |-> 7, chain |-> 8, chainResolved |-> 9, linkFetched |-> 10,
     deliveryDecided |-> 11, responded |-> 12, done |-> 13]

\* C18: within one request the steps occur only in the order located, plain or
\* crypt branch, chain-resolved, link-fetched, delivery-decided, done: the link
\* is never fetched before chain resolution has succeeded, the delivery is never
\* decided before the link fetch has succeeded, and the success response is
\* rendered only after the delivery decision.
C18_StepsInOrder ==
    /\ [](entry = "CryptMeta" =>
            /\ link # NoLink => chainRet = "ok"
            /\ loc.remoteURL # NoURL => link.state \in {"open", "closed"}
            /\ resp # NoResp => (loc.remoteURL # NoURL /\ resp.remote.url = loc.remoteURL))
    /\ [][(entry = "CryptMeta" /\ pc' # "error" /\ pc' # pc)
            => /\ Rank[pc'] > Rank[pc]
               /\ pc' = "linkFetched" => (pc = "chainResolved" /\ chainRet = "ok")
               /\ pc' = "deliveryDecided" => (pc = "linkFetched" /\ link.state = "open")
               /\ pc' = "responded" => pc = "deliveryDecided"
               /\ pc' = "chainResolved" => (pc = "chain" /\ loc.mode \in {"plain", "crypt"})]_vars
    /\ [][(entry = "CryptMeta" /\ calls' # calls /\ LastCall' = "Link")
            => (LastCall = "buildStorageChain" /\ chainRet = "ok")]_vars

C18_AllStepsTaken ==
    /\ entry = "CryptMeta"
    /\ pc = "done"
    /\ calls = <<"ShouldBind", "GetStorage", "List", "DataKey", "GetStorageAndActualPath",
                 "buildStorageChain", "Link", "SuccessResp">>

\* ------------------------------------------------ properties of the terminal node
LastNode == storageChain[Len(storageChain)]
NaiveResult == resolveTab[FixAndCleanPath(loc.requestPath)]

\* C19: on every successful request the link is fetched from the storage and
\* actual path of the last node of the resolved chain, and remote.raw_path and
\* encrypted_actual_path both equal that node's actual path; the result of the
\* single-hop lookup is used only if the chain is empty.
C19_LinkFromLastNode ==
    Responded =>
        IF Len(storageChain) > 0
        THEN /\ link.URL = NativeURL(LastNode.storage, LastNode.actualPath)
             /\ resp.remote.raw_path = LastNode.actualPath
             /\ resp.encrypted_actual_path = LastNode.actualPath
        ELSE /\ link.URL = NativeURL(NaiveResult.storage, NaiveResult.actualPath)
             /\ resp.remote.raw_path = NaiveResult.actualPath
             /\ resp.encrypted_actual_path = NaiveResult.actualPath

C19_TerminalSupersedesLookup ==
    /\ Responded
    /\ Len(storageChain) >= 2
    /\ LastNode.storage # NaiveResult.storage
    /\ LastNode.actualPath # NaiveResult.actualPath
    /\ resp.remote.raw_path = LastNode.actualPath

\* ------------------------------------------------ properties of the first node
\* C20: whenever buildStorageChain returns without error the chain has at least
\* one node, and its first node is the storage owning the normalized input path,
\* with that normalized path as its raw path.
C20_FirstNodeOwnsInput ==
    (ChainEnded /\ chainRet = "ok")
        => /\ Len(storageChain) >= 1
           /\ storageChain[1].rawPath = FixAndCleanPath(chainInput)
           /\ FixAndCleanPath(chainInput) \in DOMAIN resolveTab
           /\ ~resolveTab[FixAndCleanPath(chainInput)].err
           /\ storageChain[1].storage = resolveTab[FixAndCleanPath(chainInput)].storage
           /\ storageChain[1].actualPath = resolveTab[FixAndCleanPath(chainInput)].actualPath

C20_UncleanInputResolved ==
    /\ ChainEnded
    /\ chainRet = "ok"
    /\ chainInput # FixAndCleanPath(chainInput)
    /\ Len(storageChain) >= 2
    /\ storageChain[1].rawPath = <<1>>

\* ------------------------------------------------ properties of the signature
\* the case of the delivery decision that produced the URL
ForcedProxyCase ==
    /\ Decided
    /\ ProxiedNodes = {}
    /\ ~TerminalProxied
    /\ ForcedProxy

\* C21: in the forced-proxy case the synthesized "/p" URL carries a sign
\* parameter if and only if the storage of the encrypted virtual path requires
\* signed links or the global sign-all setting is on; the URLs of the other
\* three cases never get a sign parameter from the assembler.
C21_SignOnlyOnForcedProxy ==
    Decided =>
        IF ForcedProxyCase
        THEN /\ loc.remoteURL.kind = "local"
             /\ loc.remoteURL.path = loc.encryptionPath
             /\ loc.remoteURL.sign <=> (env.signStorage \/ env.signAll)
        ELSE /\ loc.remoteURL.kind \in {"downproxy", "native"}
             /\ ~loc.remoteURL.sign

C21_SignedForStorageOnly ==
    /\ ForcedProxyCase
    /\ Responded
    /\ env.signStorage
    /\ ~env.signAll
    /\ resp.remote.url.kind = "local"
    /\ resp.remote.url.sign

\* ------------------------------------------------ properties of the flags
DeliveryDecided == entry = "Delivery" /\ pc \in {"deliveryDecided", "responded", "done"}

\* C22: the must-proxy and web-proxy flags of non-terminal chain nodes do not
\* influence delivery: two requests over configurations that differ only in
\* those flags get the same response, so a native URL can be returned although
\* an intermediate storage is flagged.
C22_NonTerminalFlagsIgnored ==
    DeliveryDecided =>
        /\ twin.active
        /\ twin.outcome.useProxy = loc.useProxy
        /\ twin.outcome.remoteURL = loc.remoteURL
        /\ twin.outcome.headerMap = loc.headerMap
        /\ twin.outcome.concurrency = loc.concurrency
        /\ twin.outcome.partSize = loc.partSize
        /\ resp # NoResp =>
              resp.remote = [url |-> twin.outcome.remoteURL, method |-> "GET",
                             headers |-> twin.outcome.headerMap,
                             concurrency |-> twin.outcome.concurrency,
                             part_size |-> twin.outcome.partSize,
                             raw_path |-> LastNode.actualPath]

C22_NativeDespiteFlaggedIntermediate ==
    /\ DeliveryDecided
    /\ resp # NoResp
    /\ twin.flagged
    /\ Len(storageChain) >= 2
    /\ resp.remote.url.kind = "native"

\* ------------------------------------------------ properties of the two variants
\* the request path is owned by a storage that cannot re-route
OwnerCannotReroute ==
    /\ entry = "CryptMeta"
    /\ FixAndCleanPath(loc.requestPath) \in DOMAIN resolveTab
    /\ ~SingleHopLookup.err
    /\ resolverCap[SingleHopLookup.storage] = "no"

\* C23: the chain-resolving CryptMeta refines the single-hop one: when the
\* (possibly encrypted) request path is owned by a storage without re-routing
\* capability the chain has exactly one node and both return the same outcome,
\* the same error or a response equal in every field.
C23_RefinesSingleHop ==
    /\ (entry = "CryptMeta" /\ pc = "error")
          => /\ errResp.step = "chain" => resolverCap[SingleHopLookup.storage] = "yes"
             /\ errResp.step # "chain" => errResp.status = StatusSingleHop(errResp.step)
             /\ (errResp.step = "link" /\ OwnerCannotReroute)
                   => /\ loc.remoteStorage = SingleHopLookup.storage
                      /\ loc.remoteActualPath = SingleHopLookup.actualPath
    /\ (chainRet = "ok" /\ OwnerCannotReroute)
          => /\ Len(storageChain) = 1
             /\ link # NoLink
                   => link.URL = NativeURL(SingleHopLookup.storage,
                                           SingleHopLookup.actualPath)
             /\ resp # NoResp => resp = ResponseSingleHop(env)

C23_OneNodeServedByDownProxy ==
    /\ OwnerCannotReroute
    /\ Responded
    /\ Len(storageChain) = 1
    /\ resp.mode = "crypt"
    /\ resp.remote.url.kind = "downproxy"
    /\ ForcedProxy

====
